---------------------------- MODULE Spec2Model ----------------------------
(***************************************************************************)
(* Model of link-extractor: src/src/parser.rs (extract_text,               *)
(* extract_link_from_node, extract_links) and src/src/main.rs (main,       *)
(* parse_from_filename, load_file).                                        *)
(*                                                                         *)
(* Strings are sequences of one-character strings, so that concatenation   *)
(* is \o and a separator between two fragments would show in the result.   *)
(* A document tree is an arena of nodes 1..n, node 1 being the root the    *)
(* parser returns; the children of a node are the nodes naming it as       *)
(* parent, in increasing index order (the order the parser appended them). *)
(***************************************************************************)
EXTENDS Naturals, Sequences, FiniteSets

\* Largest number of nodes of a document tree (root included).
MaxNodes == 5
\* Largest number of file names on the command line.
MaxFiles == 3

(***************************************************************************)
(* Node values (comrak::nodes::NodeValue).  "Emph" stands for every node   *)
(* that only contains other nodes (Paragraph, Item, Emph, Strong, ...):    *)
(* the code treats them all alike.  Text and Code are leaves that carry    *)
(* literal characters; only Text is NodeValue::Text.                       *)
(***************************************************************************)
DocumentValue == [kind |-> "Document"]

EmphValue == [kind |-> "Emph"]

TextValue(t) == [kind |-> "Text", text |-> t]

CodeValue(t) == [kind |-> "Code", literal |-> t]

LinkValue(u) == [kind |-> "Link", url |-> u]

\* The values a non-root node of a generated tree may carry.
NodeValues ==
    { TextValue(<<"a">>), TextValue(<<"b">>), CodeValue(<<"c">>),
      LinkValue(<<"u">>), LinkValue(<<>>), EmphValue }

IsContainer(v) == v.kind \in {"Document", "Emph", "Link"}

\* The tree the parser builds for the empty string: a lone Document node.
EmptyArena == [n |-> 1, parent |-> [i \in 2..1 |-> 1], value |-> [i \in 1..1 |-> DocumentValue]]

\* Every tree with n nodes: each node but the root has an earlier node as its
\* parent, and only container nodes have children.
ArenasOfSize(n) ==
    { [n |-> n, parent |-> pv[1],
       value |-> [i \in 1..n |-> IF i = 1 THEN DocumentValue ELSE pv[2][i]]] :
        pv \in { qw \in [2..n -> 1..n] \X [2..n -> NodeValues] :
                   \A i \in 2..n :
                      /\ qw[1][i] < i
                      /\ qw[1][i] = 1 \/ IsContainer(qw[2][qw[1][i]]) } }

----------------------------------------------------------------------------
(* Tree navigation (comrak's arena_tree::Node: first_child, next_sibling,   *)
(* parent), and the Traverse/Descendants iterators built on it.             *)

Min(S) == CHOOSE x \in S : \A y \in S : x <= y

ChildSet(a, n) == { i \in 2..a.n : a.parent[i] = n }

RECURSIVE SortedSeq(_)
SortedSeq(S) == IF S = {} THEN <<>> ELSE <<Min(S)>> \o SortedSeq(S \ {Min(S)})

\* The children of n, left to right.
ChildSeq(a, n) == SortedSeq(ChildSet(a, n))

RECURSIVE IsBelow(_, _, _)
\* d is a proper descendant of n.
IsBelow(a, d, n) ==
    IF d = 1 THEN FALSE
    ELSE a.parent[d] = n \/ IsBelow(a, a.parent[d], n)

\* 0 stands for None.
FirstChild(a, n) == IF ChildSet(a, n) = {} THEN 0 ELSE Min(ChildSet(a, n))

NextSibling(a, n) ==
    IF n = 1 THEN 0
    ELSE LET later == { i \in ChildSet(a, a.parent[n]) : i > n }
         IN  IF later = {} THEN 0 ELSE Min(later)

NoEdge == [edge |-> "None", node |-> 0]

\* Traverse::next: the edge that follows `item` in a traversal rooted at root.
TraverseNext(a, root, item) ==
    IF item.edge = "Start"
    THEN IF FirstChild(a, item.node) # 0
         THEN [edge |-> "Start", node |-> FirstChild(a, item.node)]
         ELSE [edge |-> "End", node |-> item.node]
    ELSE IF item.node = root THEN NoEdge
         ELSE IF NextSibling(a, item.node) # 0
              THEN [edge |-> "Start", node |-> NextSibling(a, item.node)]
              ELSE IF item.node # 1
                   THEN [edge |-> "End", node |-> a.parent[item.node]]
                   ELSE NoEdge

RECURSIVE TraverseFrom(_, _, _, _)
\* Descendants: the nodes of the Start edges, in the order Traverse yields them.
TraverseFrom(a, root, item, acc) ==
    IF item.edge = "None" THEN acc
    ELSE TraverseFrom(a, root, TraverseNext(a, root, item),
                      IF item.edge = "Start" THEN Append(acc, item.node) ELSE acc)

RECURSIVE TraverseEnds(_, _, _, _)
TraverseEnds(a, root, item, acc) ==
    IF item.edge = "None" THEN acc
    ELSE TraverseEnds(a, root, TraverseNext(a, root, item),
                      IF item.edge = "End" THEN Append(acc, item.node) ELSE acc)

\* Mutant: the nodes of the End edges, which is post-order.
DescendantsPostOrder(a, root) ==
    TraverseEnds(a, root, [edge |-> "Start", node |-> root], <<>>)

Descendants(a, root) == TraverseFrom(a, root, [edge |-> "Start", node |-> root], <<>>)

----------------------------------------------------------------------------
(* parser.rs *)

RECURSIVE CollectText(_, _)
\* filter_map(Text => Some(text)).collect::<String>() over a node sequence.
CollectText(a, nodes) ==
    IF nodes = <<>> THEN <<>>
    ELSE LET v == a.value[Head(nodes)]
         IN  (IF v.kind = "Text" THEN v.text ELSE <<>>) \o CollectText(a, Tail(nodes))

RECURSIVE CollectTextSpaced(_, _)
CollectTextSpaced(a, nodes) ==
    IF nodes = <<>> THEN <<>>
    ELSE LET v == a.value[Head(nodes)]
         IN  (IF v.kind = "Text" THEN v.text \o <<" ">> ELSE <<>>)
                \o CollectTextSpaced(a, Tail(nodes))

\* Mutant: a space after every text fragment.
ExtractTextSpaced(a, root) == CollectTextSpaced(a, Descendants(a, root))

ExtractText(a, root) == CollectText(a, Descendants(a, root))

None == [some |-> FALSE]

Some(x) == [some |-> TRUE, value |-> x]

\* Mutant: an empty identifier replaced by the current directory.
ExtractLinkFromNodeNormalised(a, node, file_path) ==
    IF a.value[node].kind = "Link"
    THEN Some([description |-> ExtractText(a, node),
               url |-> a.value[node].url,
               source_file |-> IF file_path = <<>> THEN <<".">> ELSE file_path])
    ELSE None

\* Mutant: the URL resolved against the identifier.
ExtractLinkFromNodeResolved(a, node, file_path) ==
    IF a.value[node].kind = "Link"
    THEN Some([description |-> ExtractText(a, node),
               url |-> file_path \o a.value[node].url,
               source_file |-> file_path])
    ELSE None

ExtractLinkFromNode(a, node, file_path) ==
    IF a.value[node].kind = "Link"
    THEN Some([description |-> ExtractText(a, node),
               url |-> a.value[node].url,
               source_file |-> file_path])
    ELSE None

RECURSIVE FilterMapLinks(_, _, _)
FilterMapLinks(a, nodes, file_path) ==
    IF nodes = <<>> THEN <<>>
    ELSE LET r == ExtractLinkFromNode(a, Head(nodes), file_path)
         IN  (IF r.some THEN <<r.value>> ELSE <<>>) \o FilterMapLinks(a, Tail(nodes), file_path)

\* Mutant: root.children() in place of root.descendants().
ExtractLinksChildrenOnly(a, file_path) == FilterMapLinks(a, ChildSeq(a, 1), file_path)

\* Mutant: a walk that does not look for links inside a link.
ExtractLinksOutermost(a, file_path) ==
    FilterMapLinks(a, SelectSeq(Descendants(a, 1),
                                LAMBDA n : ~\E m \in 1..a.n : a.value[m].kind = "Link" /\ IsBelow(a, n, m)),
                   file_path)

\* extract_links on the tree parse_document returns for markdown_input.
ExtractLinks(a, file_path) == FilterMapLinks(a, Descendants(a, 1), file_path)

----------------------------------------------------------------------------
(* main.rs: inputs *)

\* A tree given by the parent of nodes 2..n and the values of nodes 2..n.
MkArena(parents, values) ==
    [n |-> Len(parents) + 1,
     parent |-> [i \in 2..(Len(parents) + 1) |-> parents[i - 1]],
     value |-> [i \in 1..(Len(parents) + 1) |-> IF i = 1 THEN DocumentValue ELSE values[i - 1]]]

\* File contents the runs read: markdown texts in the manner of the test
\* suites (in the last one ~ stands for a backtick: a code span).
Contents ==
    { "", "[a](u)", "[a] (u)", "* [a](u)\n* [b](v)", "[a,\"](u)", "x *y[~c~z](u)*" }

\* parse_document with ComrakOptions::default(), on the contents above.
ParseDocument(contents) ==
    CASE contents = "" -> EmptyArena
      [] contents = "[a](u)" ->
            MkArena(<<1, 2, 3>>, <<EmphValue, LinkValue(<<"u">>), TextValue(<<"a">>)>>)
      [] contents = "[a] (u)" ->
            MkArena(<<1, 2>>, <<EmphValue, TextValue(<<"[", "a", "]", " ", "(", "u", ")">>)>>)
      [] contents = "* [a](u)\n* [b](v)" ->
            MkArena(<<1, 2, 3, 4, 5, 2, 7, 8, 9>>,
                    <<EmphValue, EmphValue, EmphValue, LinkValue(<<"u">>), TextValue(<<"a">>),
                      EmphValue, EmphValue, LinkValue(<<"v">>), TextValue(<<"b">>)>>)
      [] contents = "[a,\"](u)" ->
            MkArena(<<1, 2, 3>>,
                    <<EmphValue, LinkValue(<<"u">>), TextValue(<<"a", ",", "\"">>)>>)
      [] contents = "x *y[~c~z](u)*" ->
            MkArena(<<1, 2, 2, 4, 4, 6, 6>>,
                    <<EmphValue, TextValue(<<"x", " ">>), EmphValue, TextValue(<<"y">>),
                      LinkValue(<<"u">>), CodeValue(<<"c">>), TextValue(<<"z">>)>>)

\* load_file's Err: the file cannot be opened or is not UTF-8.
IoError == "io::Error"

\* Paths (std::path::PathBuf) as sequences of units; "xFF" is a byte that is
\* not valid UTF-8.  The empty path never opens.
Paths == { <<>>, <<"a">>, <<"b", "xFF">> }

FileSystems == { f \in [Paths -> Contents \cup {IoError}] : f[<<>>] = IoError }

\* Path::to_string_lossy: invalid sequences become U+FFFD.
ToStringLossy(path) == [i \in 1..Len(path) |-> IF path[i] = "xFF" THEN "uFFFD" ELSE path[i]]

\* --separator values: the default, a two-character one, the empty string.
Separators == { <<",">>, <<";", ",">>, <<>> }

\* Identifiers extract_links is called with directly.
Ids == { <<>>, <<"f">> }

RECURSIVE SeqsUpTo(_, _)
SeqsUpTo(S, k) ==
    IF k = 0 THEN { <<>> }
    ELSE SeqsUpTo(S, k - 1) \cup { Append(q, x) : q \in SeqsUpTo(S, k - 1), x \in S }

----------------------------------------------------------------------------
(* main.rs: output *)

\* Mutant: the fields in the order source_file, description, url.
LinkFieldsSourceFirst(link) ==
    << <<"source_file", link.source_file>>, <<"description", link.description>>,
       <<"url", link.url>> >>

\* The struct's fields in declaration order, as serde visits them.
LinkFields(link) ==
    << <<"description", link.description>>, <<"url", link.url>>,
       <<"source_file", link.source_file>> >>

RECURSIVE DoubleQuotes(_)
DoubleQuotes(f) ==
    IF f = <<>> THEN <<>>
    ELSE (IF Head(f) = "\"" THEN <<"\"", "\"">> ELSE <<Head(f)>>) \o DoubleQuotes(Tail(f))

\* csv's writer, QuoteStyle::Necessary: a field holding the delimiter, a quote
\* or a line break is quoted, its quotes doubled.
CsvField(f, delim) ==
    IF \E i \in 1..Len(f) : f[i] \in {delim, "\"", "\n", "\r"}
    THEN <<"\"">> \o DoubleQuotes(f) \o <<"\"">>
    ELSE f

RECURSIVE CsvJoin(_, _)
CsvJoin(fields, delim) ==
    IF Len(fields) = 0 THEN <<>>
    ELSE IF Len(fields) = 1 THEN CsvField(fields[1], delim)
    ELSE CsvField(fields[1], delim) \o <<delim>> \o CsvJoin(Tail(fields), delim)

Chars(name) ==
    CASE name = "description" -> <<"d", "e", "s", "c", "r", "i", "p", "t", "i", "o", "n">>
      [] name = "url" -> <<"u", "r", "l">>
      [] name = "source_file" -> <<"s", "o", "u", "r", "c", "e", "_", "f", "i", "l", "e">>

\* Writer::serialize of one Link: its values in field order.
CsvRecord(link, delim) ==
    CsvJoin([i \in 1..Len(LinkFields(link)) |-> LinkFields(link)[i][2]], delim)

\* The header Writer::serialize writes before the first record (has_headers).
CsvHeader(link, delim) ==
    CsvJoin([i \in 1..Len(LinkFields(link)) |-> Chars(LinkFields(link)[i][1])], delim)

\* The lines the csv writer puts on stdout for link_list.
CsvWrite(list, delim) ==
    IF list = <<>> THEN <<>>
    ELSE <<CsvHeader(list[1], delim)>> \o [i \in 1..Len(list) |-> CsvRecord(list[i], delim)]

\* serde_json::to_string_pretty: an array of objects, keys in field order.
JsonPretty(list) == [i \in 1..Len(list) |-> LinkFields(list[i])]

----------------------------------------------------------------------------
(* State *)

VARIABLES
    arena,       \* the document tree of the text being processed
    file_path,   \* the identifier extract_links was called with
    links,       \* extract_links' result
    text,        \* extract_text's result on the root
    pc,          \* where the run is
    filenames,   \* args.filenames
    fs,          \* what load_file finds at each path
    json,        \* args.json
    separator,   \* args.separator
    next,        \* index of the next file name the iterator takes
    link_list,   \* the records collected so far
    stderr,      \* diagnostics printed
    stdout       \* serialized output

vars == <<arena, file_path, links, text, pc, filenames, fs, json, separator,
          next, link_list, stderr, stdout>>

mainVars == <<filenames, fs, json, separator, next, link_list, stderr, stdout>>

(* parser.rs called directly, as its tests do *)

InitParser ==
    /\ \E n \in 1..MaxNodes : arena \in ArenasOfSize(n)
    /\ file_path = <<>>
    /\ links = <<>>
    /\ text = <<>>
    /\ pc = "start"
    /\ filenames = <<>>
    /\ fs = [p \in Paths |-> IoError]
    /\ json = FALSE
    /\ separator = <<",">>
    /\ next = 1
    /\ link_list = <<>>
    /\ stderr = <<>>
    /\ stdout = <<>>

CallExtractLinks ==
    /\ pc = "start"
    /\ \E id \in Ids :
         /\ file_path' = id
         /\ links' = ExtractLinks(arena, id)
    /\ pc' = "extracted"
    /\ UNCHANGED <<arena, text, mainVars>>

CallExtractText ==
    /\ pc = "start"
    /\ text' = ExtractText(arena, 1)
    /\ pc' = "text"
    /\ UNCHANGED <<arena, file_path, links, mainVars>>

NextParser == CallExtractLinks \/ CallExtractText

SpecParser == InitParser /\ [][NextParser]_vars

(* main.rs *)

Init ==
    /\ arena = EmptyArena
    /\ file_path = <<>>
    /\ links = <<>>
    /\ text = <<>>
    /\ pc = "collect"
    /\ filenames \in SeqsUpTo(Paths, MaxFiles)
    /\ fs \in FileSystems
    /\ json \in BOOLEAN
    /\ separator \in Separators
    /\ next = 1
    /\ link_list = <<>>
    /\ stderr = <<>>
    /\ stdout = <<>>

\* Mutant: the records of a file put before those collected so far.
ParseOkPrepends ==
    /\ pc = "collect"
    /\ next <= Len(filenames)
    /\ fs[filenames[next]] # IoError
    /\ arena' = ParseDocument(fs[filenames[next]])
    /\ file_path' = ToStringLossy(filenames[next])
    /\ links' = ExtractLinks(arena', file_path')
    /\ link_list' = links' \o link_list
    /\ next' = next + 1
    /\ UNCHANGED <<text, pc, filenames, fs, json, separator, stderr, stdout>>

\* parse_from_filename returns Ok(links): flat_map appends them.
ParseOk ==
    /\ pc = "collect"
    /\ next <= Len(filenames)
    /\ fs[filenames[next]] # IoError
    /\ arena' = ParseDocument(fs[filenames[next]])
    /\ file_path' = ToStringLossy(filenames[next])
    /\ links' = ExtractLinks(arena', file_path')
    /\ link_list' = link_list \o links'
    /\ next' = next + 1
    /\ UNCHANGED <<text, pc, filenames, fs, json, separator, stderr, stdout>>

\* Mutant: the first load error ends the iteration over the file names.
ParseErrStops ==
    /\ pc = "collect"
    /\ next <= Len(filenames)
    /\ fs[filenames[next]] = IoError
    /\ stderr' = Append(stderr, [file |-> filenames[next], error |-> IoError])
    /\ next' = Len(filenames) + 1
    /\ UNCHANGED <<arena, file_path, links, text, pc, filenames, fs, json, separator,
                   link_list, stdout>>

\* parse_from_filename returns Err(e): eprintln!, and filter_map drops it.
ParseErr ==
    /\ pc = "collect"
    /\ next <= Len(filenames)
    /\ fs[filenames[next]] = IoError
    /\ stderr' = Append(stderr, [file |-> filenames[next], error |-> IoError])
    /\ next' = next + 1
    /\ UNCHANGED <<arena, file_path, links, text, pc, filenames, fs, json, separator,
                   link_list, stdout>>

SerializeJson ==
    /\ pc = "collect"
    /\ next > Len(filenames)
    /\ json
    /\ stdout' = JsonPretty(link_list)
    /\ pc' = "done"
    /\ UNCHANGED <<arena, file_path, links, text, filenames, fs, json, separator,
                   next, link_list, stderr>>

SerializeCsv ==
    /\ pc = "collect"
    /\ next > Len(filenames)
    /\ ~json
    /\ separator # <<>>
    /\ stdout' = CsvWrite(link_list, separator[1])
    /\ pc' = "done"
    /\ UNCHANGED <<arena, file_path, links, text, filenames, fs, json, separator,
                   next, link_list, stderr>>

\* args.separator.as_bytes()[0] on an empty separator: index out of bounds.
PanicSeparator ==
    /\ pc = "collect"
    /\ next > Len(filenames)
    /\ ~json
    /\ separator = <<>>
    /\ pc' = "panicked"
    /\ UNCHANGED <<arena, file_path, links, text, filenames, fs, json, separator,
                   next, link_list, stderr, stdout>>

Next == ParseOk \/ ParseErr \/ SerializeJson \/ SerializeCsv \/ PanicSeparator

Spec == Init /\ [][Next]_vars

----------------------------------------------------------------------------
(* What the claims speak of, defined on the tree itself and not through    *)
(* the iterators above.                                                     *)

RECURSIVE PreOrder(_, _)
RECURSIVE PreOrderAll(_, _)
\* Depth-first pre-order: the node, then the pre-order of each child in turn.
PreOrder(a, n) == <<n>> \o PreOrderAll(a, ChildSeq(a, n))

PreOrderAll(a, kids) ==
    IF kids = <<>> THEN <<>> ELSE PreOrder(a, Head(kids)) \o PreOrderAll(a, Tail(kids))

IsLink(a, n) == a.value[n].kind = "Link"

LinkNodeSet(a) == { n \in 1..a.n : IsLink(a, n) }

RECURSIVE KeepLinks(_, _)
KeepLinks(a, nodes) ==
    IF nodes = <<>> THEN <<>>
    ELSE (IF IsLink(a, Head(nodes)) THEN <<Head(nodes)>> ELSE <<>>) \o KeepLinks(a, Tail(nodes))

\* The link nodes of the document in pre-order.
LinkNodes(a) == KeepLinks(a, PreOrder(a, 1))

RECURSIVE TextContent(_, _)
RECURSIVE TextContentAll(_, _)
\* The text leaves under n, concatenated in document order.
TextContent(a, n) ==
    IF a.value[n].kind = "Text" THEN a.value[n].text
    ELSE TextContentAll(a, ChildSeq(a, n))

TextContentAll(a, kids) ==
    IF kids = <<>> THEN <<>> ELSE TextContent(a, Head(kids)) \o TextContentAll(a, Tail(kids))

RECURSIVE LiteralContent(_, _)
RECURSIVE LiteralContentAll(_, _)
\* The literal text under n: that of text leaves and of code spans.
LiteralContent(a, n) ==
    IF a.value[n].kind = "Text" THEN a.value[n].text
    ELSE IF a.value[n].kind = "Code" THEN a.value[n].literal
    ELSE LiteralContentAll(a, ChildSeq(a, n))

LiteralContentAll(a, kids) ==
    IF kids = <<>> THEN <<>>
    ELSE LiteralContent(a, Head(kids)) \o LiteralContentAll(a, Tail(kids))

TextLeavesIn(a, S) == { n \in S : a.value[n].kind = "Text" }

Extracted == pc = "extracted"

----------------------------------------------------------------------------
(* Claims about parser.rs, under SpecParser *)

\* C1: extract_links returns exactly one record per link-tagged node of the
\* tree and none for any other node; a tree without link nodes, the tree of
\* the empty string among them, gives the empty sequence.
C1_OneRecordPerLinkNode ==
    Extracted =>
       /\ Len(links) = Cardinality(LinkNodeSet(arena))
       /\ (LinkNodeSet(arena) = {} => links = <<>>)

C1_Witness ==
    /\ Extracted
    /\ Len(links) = 2
    /\ arena.n = 5
    /\ \E n \in 2..arena.n : arena.value[n].kind = "Text"

\* C2: the records are in the depth-first pre-order of their link nodes:
\* the i-th record is the record of the i-th link node met when each node is
\* visited before its children and children are visited left to right.
C2_RecordsInPreOrder ==
    Extracted =>
       LET ln == LinkNodes(arena)
       IN  /\ Len(links) = Len(ln)
           /\ \A i \in 1..Len(links) :
                 <<links[i].url, links[i].description>> =
                    <<arena.value[ln[i]].url, TextContent(arena, ln[i])>>

\* Two link nodes whose records differ, the second one not the larger index
\* of the arena: the order of the records is that of the walk, not of the ids.
C2_Witness ==
    /\ Extracted
    /\ Len(links) = 2
    /\ links[1] # links[2]
    /\ LinkNodes(arena)[1] > LinkNodes(arena)[2]

\* C3: a record's description is the text accumulator's result on its link
\* node's subtree: the text leaves of the subtree concatenated in document
\* order with nothing between them, the empty string without a text leaf,
\* the leaf's content unchanged when there is a single one.
C3_DescriptionIsSubtreeText ==
    /\ Extracted =>
          LET ln == LinkNodes(arena)
          IN
          /\ Len(links) = Len(ln)
          /\ \A i \in 1..Len(links) :
                LET n == ln[i]
                    leaves == TextLeavesIn(arena, { d \in 1..arena.n : IsBelow(arena, d, n) })
                IN  /\ links[i].description = TextContent(arena, n)
                    /\ leaves = {} => links[i].description = <<>>
                    /\ \A t \in leaves :
                          leaves = {t} => links[i].description = arena.value[t].text
    /\ pc = "text" => text = TextContent(arena, 1)

\* A link over two text leaves in distinct depths, "b" before "a".
C3_Witness ==
    /\ Extracted
    /\ \E i \in 1..Len(links) :
          /\ links[i].description = <<"b", "a">>
          /\ \E d \in 1..arena.n :
                /\ arena.value[d].kind = "Emph"
                /\ IsBelow(arena, d, LinkNodes(arena)[i])

\* C4: the literal text enclosed by inline formatting inside a link, emphasis
\* or a code span, is part of the description: the description holds the
\* literal text of every node of the subtree that carries literal text.
C4_DescriptionHoldsLiteralText ==
    Extracted =>
       LET ln == LinkNodes(arena)
       IN  /\ Len(links) = Len(ln)
           /\ \A i \in 1..Len(links) : links[i].description = LiteralContent(arena, ln[i])

TextOfNodes(a, nodes) ==
    TextContentAll(a, SelectSeq(nodes, LAMBDA n : a.value[n].kind = "Text"))

\* Position of node n in sequence s.
IndexOf(s, n) == CHOOSE k \in 1..Len(s) : s[k] = n

\* C7: a link node inside another link node's subtree gets a record of its
\* own, after the outer one, and the outer description holds the inner
\* link's display text at its document position: the outer text before the
\* inner link, the inner description, the outer text after it.
C7_NestedLinks ==
    Extracted =>
       LET ln == LinkNodes(arena)
       IN  /\ Len(links) = Len(ln)
           /\ \A p, q \in 1..Len(ln) :
                 IsBelow(arena, ln[q], ln[p]) =>
                    LET walk == PreOrder(arena, ln[p])
                        from == IndexOf(walk, ln[q])
                        upto == from + Len(PreOrder(arena, ln[q])) - 1
                    IN  /\ p < q
                        /\ links[q].url = arena.value[ln[q]].url
                        /\ links[q].description = TextContent(arena, ln[q])
                        /\ links[p].description =
                              TextOfNodes(arena, SubSeq(walk, 1, from - 1))
                                 \o links[q].description
                                 \o TextOfNodes(arena, SubSeq(walk, upto + 1, Len(walk)))

\* An outer link with text of its own before an inner link with text.
C7_Witness ==
    /\ Extracted
    /\ Len(links) = 2
    /\ IsBelow(arena, LinkNodes(arena)[2], LinkNodes(arena)[1])
    /\ links[1].description = <<"a", "b">>
    /\ links[2].description = <<"b">>

----------------------------------------------------------------------------
(* Claims about main.rs, under Spec *)

Loaded(i) == fs[filenames[i]] # IoError

\* What extract_links gives for the i-th file name, called with identifier id.
RecordsOf(i, id) == ExtractLinks(ParseDocument(fs[filenames[i]]), id)

RECURSIVE Combined(_)
\* The records of the first k file names: those of each loaded file in turn,
\* each file's path converted by to_string_lossy.
Combined(k) ==
    IF k = 0 THEN <<>>
    ELSE Combined(k - 1)
            \o (IF Loaded(k) THEN RecordsOf(k, ToStringLossy(filenames[k])) ELSE <<>>)

RECURSIVE CombinedVerbatim(_)
\* The same, each file's path being the identifier as it is.
CombinedVerbatim(k) ==
    IF k = 0 THEN <<>>
    ELSE CombinedVerbatim(k - 1) \o (IF Loaded(k) THEN RecordsOf(k, filenames[k]) ELSE <<>>)

RECURSIVE CountRecords(_)
CountRecords(k) ==
    IF k = 0 THEN 0
    ELSE CountRecords(k - 1)
            + (IF Loaded(k) THEN Len(RecordsOf(k, ToStringLossy(filenames[k]))) ELSE 0)

Range(q) == { q[i] : i \in 1..Len(q) }

FailedAmong(k) == SelectSeq([i \in 1..k |-> i], LAMBDA i : ~Loaded(i))

RECURSIVE CsvParseFrom(_, _, _, _, _)
\* A CSV reader: the fields of one record, quotes undone.
CsvParseFrom(rest, delim, cur, quoted, fields) ==
    IF rest = <<>> THEN Append(fields, cur)
    ELSE IF quoted
         THEN IF Head(rest) = "\""
              THEN IF Len(rest) >= 2 /\ rest[2] = "\""
                   THEN CsvParseFrom(Tail(Tail(rest)), delim, Append(cur, "\""), TRUE, fields)
                   ELSE CsvParseFrom(Tail(rest), delim, cur, FALSE, fields)
              ELSE CsvParseFrom(Tail(rest), delim, Append(cur, Head(rest)), TRUE, fields)
         ELSE IF Head(rest) = "\"" /\ cur = <<>>
              THEN CsvParseFrom(Tail(rest), delim, cur, TRUE, fields)
              ELSE IF Head(rest) = delim
                   THEN CsvParseFrom(Tail(rest), delim, <<>>, FALSE, Append(fields, cur))
                   ELSE CsvParseFrom(Tail(rest), delim, Append(cur, Head(rest)), FALSE, fields)

CsvParse(line, delim) == CsvParseFrom(line, delim, <<>>, FALSE, <<>>)

\* C8: a file that fails to load is skipped with a diagnostic and adds no
\* record, and the run goes on: whatever has been taken so far, there is one
\* diagnostic per failing file, the records collected are as many as the
\* loaded files give and hold each of their records, and a finished run has
\* taken every file name and put every such record on its output.
C8_FailingFilesSkipped ==
    /\ next - 1 <= Len(filenames)
    /\ stderr = [j \in 1..Len(FailedAmong(next - 1)) |->
                   [file |-> filenames[FailedAmong(next - 1)[j]], error |-> IoError]]
    /\ Len(link_list) = CountRecords(next - 1)
    /\ \A i \in 1..(next - 1) :
          Loaded(i) => Range(RecordsOf(i, ToStringLossy(filenames[i]))) \subseteq Range(link_list)
    /\ pc = "done" =>
          /\ next = Len(filenames) + 1
          /\ \A i \in 1..Len(filenames) :
                Loaded(i) =>
                   \A r \in Range(RecordsOf(i, ToStringLossy(filenames[i]))) :
                      IF json THEN LinkFields(r) \in Range(stdout)
                      ELSE CsvRecord(r, separator[1]) \in Range(stdout)

\* A finished run in which a failing file stands between two files that
\* loaded with links.
C8_Witness ==
    /\ pc = "done"
    /\ Len(filenames) = 3
    /\ Loaded(1) /\ ~Loaded(2) /\ Loaded(3)
    /\ filenames[1] # filenames[3]
    /\ RecordsOf(1, <<>>) # <<>>
    /\ RecordsOf(3, <<>>) # <<>>
    /\ Len(stderr) = 1

\* C9 as stated: in delimited output every record has a line whose fields
\* are source_file, description, url in this order; in JSON output every
\* record is an object with the keys description, url, source_file.
C9_SourceFileFirst ==
    pc = "done" =>
       \A i \in 1..Len(link_list) :
          IF json
          THEN /\ Len(stdout) = Len(link_list)
               /\ { stdout[i][k][1] : k \in 1..Len(stdout[i]) } = {"description", "url", "source_file"}
          ELSE \E j \in 1..Len(stdout) :
                  CsvParse(stdout[j], separator[1]) =
                     <<link_list[i].source_file, link_list[i].description, link_list[i].url>>

\* C9 amended: in delimited output a header record description, url,
\* source_file is followed by one record per link whose fields are
\* description, url, source_file in this order, separated by the first
\* character of the separator; in JSON output every record is an object with
\* the keys description, url, source_file holding the record's fields.
C9_DescriptionUrlSourceFile ==
    pc = "done" =>
       IF json
       THEN /\ Len(stdout) = Len(link_list)
            /\ \A i \in 1..Len(link_list) :
                  /\ { stdout[i][k][1] : k \in 1..Len(stdout[i]) } = {"description", "url", "source_file"}
                  /\ \A k \in 1..Len(stdout[i]) :
                        stdout[i][k][2] = link_list[i][stdout[i][k][1]]
       ELSE IF link_list = <<>> THEN stdout = <<>>
       ELSE /\ Len(stdout) = Len(link_list) + 1
            /\ CsvParse(stdout[1], separator[1]) =
                  <<Chars("description"), Chars("url"), Chars("source_file")>>
            /\ \A i \in 1..Len(link_list) :
                  CsvParse(stdout[i + 1], separator[1]) =
                     <<link_list[i].description, link_list[i].url, link_list[i].source_file>>

\* Delimited output of a record whose description had to be quoted.
C9_Witness ==
    /\ pc = "done"
    /\ ~json
    /\ separator = <<",">>
    /\ \E i \in 1..Len(link_list) :
          /\ link_list[i].description = <<"a", ",", "\"">>
          /\ link_list[i].source_file = <<"a">>
          /\ Len(stdout[i + 1]) > 7

\* C10 as stated: the combined list is the concatenation, in argument order,
\* of extract_links(contents, path) over the loaded files, each record
\* carrying its file's path as source_file.
C10_ConcatenationWithPaths == link_list = CombinedVerbatim(next - 1)

\* C10 amended: the combined list is the concatenation, in argument order, of
\* extract_links(contents, to_string_lossy(path)) over the loaded files, so
\* that records of different files are never interleaved and the records of
\* a file are those of its contents and path alone, whatever the other files.
C10_ConcatenationWithLossyPaths ==
    /\ link_list = Combined(next - 1)
    /\ (next > 1 /\ Loaded(next - 1)) =>
          /\ links = RecordsOf(next - 1, file_path)
          /\ file_path = ToStringLossy(filenames[next - 1])
          /\ SubSeq(link_list, Len(link_list) - Len(links) + 1, Len(link_list)) = links

\* Three files taken, the middle one failing, the last one with a path that
\* is not UTF-8 and two links.
C10_Witness ==
    /\ pc = "collect"
    /\ next = 4
    /\ filenames = << <<"a">>, <<>>, <<"b", "xFF">> >>
    /\ Len(link_list) = 3
    /\ link_list[3].source_file = <<"b", "uFFFD">>
    /\ link_list[3].url = <<"v">>

=============================================================================
